---------------------------- MODULE Spec2Model ----------------------------
(***************************************************************************)
(* Code-Printer: a model of export_code.py, the generalized exporter.      *)
(*                                                                         *)
(* A Python str is modelled as a sequence of one-character strings, so     *)
(* that prefix tests, extension splitting, glob matching, sorting and the  *)
(* rendered documents are computed character by character as the code      *)
(* computes them.  A path of the file system is a sequence of names; the   *)
(* empty path is the root directory given on the command line.             *)
(***************************************************************************)
EXTENDS Integers, Sequences, FiniteSets, TLC

VARIABLES
    fs,              \* the file system: path -> node (see Node below)
    args,            \* the parsed command line (argparse namespace)
    YAML_AVAILABLE,  \* whether "import yaml" succeeded
    patterns,        \* main's local: result of load_gitignore
    tree,            \* main's local: first component of scan's result
    contents,        \* main's local: second component of scan's result,
                     \* a dict kept as the sequence of its items in insertion order
    runs             \* one record per finished invocation: what it wrote and its exit code

vars == <<fs, args, YAML_AVAILABLE, patterns, tree, contents, runs>>

-----------------------------------------------------------------------------
(* Python str primitives                                                   *)

\* The grave accent (U+0060) cannot be written inside a TLA+ string; this
\* token stands for that one character.
BQ == "<backtick>"

\* ord(c) for the characters that occur in the model's names and documents
ord(c) ==
    CASE c = "\n" -> 10  [] c = " " -> 32  [] c = "\"" -> 34 [] c = "#" -> 35
      [] c = "*" -> 42   [] c = "," -> 44  [] c = "-" -> 45  [] c = "." -> 46
      [] c = "/" -> 47   [] c = "1" -> 49  [] c = ":" -> 58  [] c = "=" -> 61
      [] c = "?" -> 63   [] c = "B" -> 66  [] c = "D" -> 68  [] c = "F" -> 70
      [] c = "P" -> 80   [] c = "Y" -> 89  [] c = "[" -> 91  [] c = "\\" -> 92
      [] c = "]" -> 93   [] c = BQ -> 96
      [] c = "a" -> 97   [] c = "b" -> 98  [] c = "c" -> 99  [] c = "d" -> 100
      [] c = "e" -> 101  [] c = "f" -> 102 [] c = "g" -> 103 [] c = "h" -> 104
      [] c = "i" -> 105  [] c = "k" -> 107 [] c = "l" -> 108 [] c = "m" -> 109
      [] c = "n" -> 110  [] c = "o" -> 111 [] c = "p" -> 112 [] c = "r" -> 114
      [] c = "s" -> 115  [] c = "t" -> 116 [] c = "u" -> 117 [] c = "x" -> 120
      [] c = "y" -> 121  [] c = "{" -> 123 [] c = "}" -> 125

\* str.__lt__: lexicographic comparison by code point (the order sorted() uses)
RECURSIVE StrLessFrom(_, _, _)
StrLessFrom(a, b, i) ==
    IF i > Len(b) THEN FALSE
    ELSE IF i > Len(a) THEN TRUE
    ELSE IF a[i] = b[i] THEN StrLessFrom(a, b, i + 1)
    ELSE ord(a[i]) < ord(b[i])

StrLess(a, b) == StrLessFrom(a, b, 1)

\* sorted(names): ascending list of a set of distinct strings
RECURSIVE sorted(_)
sorted(S) ==
    IF S = {} THEN <<>>
    ELSE LET m == CHOOSE x \in S : \A y \in S \ {x} : StrLess(x, y)
         IN  <<m>> \o sorted(S \ {m})

\* str.startswith
startswith(s, prefix) ==
    /\ Len(prefix) <= Len(s)
    /\ \A i \in 1..Len(prefix) : s[i] = prefix[i]

\* str.lower, for the upper-case letters of the model's alphabet
lowerChar(c) ==
    CASE c = "B" -> "b" [] c = "D" -> "d" [] c = "F" -> "f"
      [] c = "P" -> "p" [] c = "Y" -> "y" [] OTHER -> c

lower(s) == [i \in 1..Len(s) |-> lowerChar(s[i])]

\* str.lstrip('.')
RECURSIVE lstripDot(_)
lstripDot(s) ==
    IF s # <<>> /\ s[1] = "." THEN lstripDot(Tail(s)) ELSE s

\* str.strip(): whitespace removed at both ends
IsSpace(c) == c \in {" ", "\n"}

RECURSIVE lstrip(_)
lstrip(s) == IF s # <<>> /\ IsSpace(s[1]) THEN lstrip(Tail(s)) ELSE s

RECURSIVE rstrip(_)
rstrip(s) ==
    IF s # <<>> /\ IsSpace(s[Len(s)]) THEN rstrip(SubSeq(s, 1, Len(s) - 1)) ELSE s

strip(s) == rstrip(lstrip(s))

\* str.rfind(c): the last index of c, 0 when absent (Python's -1, one-based)
rfind(s, c) ==
    IF \E i \in 1..Len(s) : s[i] = c
    THEN CHOOSE i \in 1..Len(s) : s[i] = c /\ \A j \in (i+1)..Len(s) : s[j] # c
    ELSE 0

\* os.path.splitext(name)[1] for a name without a separator: the suffix from
\* the last dot, unless only dots precede that dot (leading dots do not start
\* an extension)
splitext_ext(name) ==
    LET d == rfind(name, ".")
    IN  IF d > 0 /\ \E k \in 1..(d - 1) : name[k] # "."
        THEN SubSeq(name, d, Len(name))
        ELSE <<>>

\* the expression  os.path.splitext(name)[1].lower().lstrip('.')
ext_of(name) == lstripDot(lower(splitext_ext(name)))

\* fnmatch.fnmatch(name, pat) on POSIX (normcase is the identity): the pattern
\* must match the whole name; "*" matches any run of characters (separators
\* included), "?" any one character, every other character itself.  Patterns
\* of the model hold no "[" (character classes are not exercised).
RECURSIVE fnmatchFrom(_, _, _, _)
fnmatchFrom(s, i, p, j) ==
    IF j > Len(p) THEN i > Len(s)
    ELSE IF p[j] = "*"
         THEN fnmatchFrom(s, i, p, j + 1)
              \/ (i <= Len(s) /\ fnmatchFrom(s, i + 1, p, j))
         ELSE /\ i <= Len(s)
              /\ (p[j] = "?" \/ p[j] = s[i])
              /\ fnmatchFrom(s, i + 1, p, j + 1)

fnmatch(name, pat) == fnmatchFrom(name, 1, pat, 1)

\* "for line in f": the lines of a text, each keeping its newline; a last
\* line without a newline is a line too
lines(data) ==
    LET ends   == { i \in 1..Len(data) : data[i] = "\n" \/ i = Len(data) }
        nth(k) == CHOOSE e \in ends : Cardinality({ x \in ends : x <= e }) = k
    IN  [k \in 1..Cardinality(ends) |->
            SubSeq(data, IF k = 1 THEN 1 ELSE nth(k - 1) + 1, nth(k))]

\* ''.join(ss): the concatenation of a sequence of strings (halved, so that
\* the evaluation nests only logarithmically deep)
RECURSIVE concat(_)
concat(ss) ==
    IF ss = <<>> THEN <<>>
    ELSE IF Len(ss) = 1 THEN ss[1]
    ELSE LET h == Len(ss) \div 2
         IN  concat(SubSeq(ss, 1, h)) \o concat(SubSeq(ss, h + 1, Len(ss)))


-----------------------------------------------------------------------------
(* The file system                                                         *)

\* Python's None as a value of the contents dict
None == <<"None">>

\* An optional argument (--max-depth, -o) is <<>> when it was not given
\* (Python's None) and <<v>> when it was given the value v.
NotGiven == <<>>

\* A node is [type, ok, data].  For a file, data is its text and ok says
\* whether open(...).read() succeeds (FALSE: it raises, a decode error or
\* any other); for a directory, ok says whether os.listdir succeeds (FALSE:
\* it raises PermissionError).
File(data, ok) == [type |-> "file", ok |-> ok, data |-> data]
Dir(ok)        == [type |-> "dir",  ok |-> ok, data |-> <<>>]

exists(F, path) == path \in DOMAIN F
isdir(F, path)  == exists(F, path) /\ F[path].type = "dir"
isfile(F, path) == exists(F, path) /\ F[path].type = "file"

\* os.listdir(path): the names of the entries of a directory
listdir(F, path) ==
    { p[Len(p)] : p \in { q \in DOMAIN F : /\ Len(q) = Len(path) + 1
                                           /\ SubSeq(q, 1, Len(path)) = path } }

\* os.path.join(rel_base, name) if rel_base else name
join_rel(rel_base, name) ==
    IF rel_base # <<>> THEN rel_base \o <<"/">> \o name ELSE name

-----------------------------------------------------------------------------
(* export_code.py                                                          *)

MEDIA_EXTENSIONS ==
    { <<"p","n","g">>, <<"j","p","g">>, <<"j","p","e","g">>, <<"g","i","f">>,
      <<"b","m","p">>, <<"s","v","g">>, <<"i","c","o">>,
      <<"m","p","4">>, <<"m","o","v">>, <<"a","v","i">>, <<"m","k","v">>,
      <<"f","l","v">>, <<"w","m","v">>, <<"w","e","b","m">> }

GITIGNORE == <<".","g","i","t","i","g","n","o","r","e">>
DOT_GIT_SLASH == <<".","g","i","t","/">>

\* load_gitignore(root_path): the stripped, non-empty, non-comment lines of
\* <root>/.gitignore when that is a file, then '.git/'
load_gitignore(F) ==
    LET keep(l) == l # <<>> /\ l[1] # "#"
        raw     == lines(F[<<GITIGNORE>>].data)
        read    == IF isfile(F, <<GITIGNORE>>)
                   THEN SelectSeq([i \in 1..Len(raw) |-> strip(raw[i])], keep)
                   ELSE <<>>
    IN  Append(read, DOT_GIT_SLASH)

\* any(fnmatch.fnmatch(rel_path, pat) for pat in pats)
any_fnmatch(rel_path, pats) ==
    \E i \in 1..Len(pats) : fnmatch(rel_path, pats[i])

should_skip_tree_no_hidden(name, rel_path, pats, include_hidden) ==
    \/ any_fnmatch(rel_path, pats)
    \/ ext_of(name) \in MEDIA_EXTENSIONS

\* should_skip_tree: hidden, gitignored or media entries are left out of the tree
should_skip_tree(name, rel_path, pats, include_hidden) ==
    \/ ~include_hidden /\ startswith(name, <<".">>)
    \/ any_fnmatch(rel_path, pats)
    \/ ext_of(name) \in MEDIA_EXTENSIONS

should_skip_content_no_exclude(name, rel_path, ignore_exts, include_pats, exclude_pats) ==
    \/ ext_of(name) \in ignore_exts
    \/ include_pats # <<>> /\ ~any_fnmatch(rel_path, include_pats)

\* should_skip_content: files whose content is not read
should_skip_content(name, rel_path, ignore_exts, include_pats, exclude_pats) ==
    \/ ext_of(name) \in ignore_exts
    \/ include_pats # <<>> /\ ~any_fnmatch(rel_path, include_pats)
    \/ exclude_pats # <<>> /\ any_fnmatch(rel_path, exclude_pats)

depth_exceeded_off_by_one(max_depth, depth) ==
    max_depth # NotGiven /\ depth > max_depth[1] + 1

\* "max_depth is not None and depth > max_depth"
depth_exceeded(max_depth, depth) ==
    max_depth # NotGiven /\ depth > max_depth[1]

read_or_empty(F, full) == IF F[full].ok THEN F[full].data ELSE <<>>

\* the try/except around open(full).read(): the text, or None when reading raises
read_or_none(F, full) == IF F[full].ok THEN F[full].data ELSE None

listed_unsorted(F, current_path) ==
    LET S == listdir(F, current_path)
        RECURSIVE desc(_)
        desc(T) == IF T = {} THEN <<>>
                   ELSE LET m == CHOOSE x \in T : \A y \in T \ {x} : StrLess(y, x)
                        IN  <<m>> \o desc(T \ {m})
    IN  IF F[current_path].ok THEN desc(S) ELSE <<>>

\* the try/except around sorted(os.listdir(current_path)): the sorted names,
\* or no names when listing raises PermissionError
listed(F, current_path) ==
    IF F[current_path].ok THEN sorted(listdir(F, current_path)) ELSE <<>>

\* contents[rel] = value on an insertion-ordered dict
dict_set(d, key, value) ==
    IF \E i \in 1..Len(d) : d[i].path = key
    THEN [i \in 1..Len(d) |-> IF d[i].path = key
                              THEN [path |-> key, content |-> value] ELSE d[i]]
    ELSE Append(d, [path |-> key, content |-> value])

\* scan._scan(current_path, rel_base, depth), with the closure's contents dict
\* passed in and handed back: [entries, contents]
RECURSIVE _scan(_, _, _, _, _, _)
RECURSIVE _scan_for(_, _, _, _, _, _, _, _, _)

\* the body of "for name in names", from position k on
_scan_for(F, o, current_path, rel_base, depth, names, k, entries, cont) ==
    IF k > Len(names) THEN [entries |-> entries, contents |-> cont]
    ELSE
      LET name   == names[k]
          full   == Append(current_path, name)
          rel    == join_rel(rel_base, name)
          is_dir == isdir(F, full)
      IN  IF should_skip_tree(name, rel, o.patterns, o.include_hidden)
          THEN _scan_for(F, o, current_path, rel_base, depth, names, k + 1, entries, cont)
          ELSE IF is_dir
          THEN LET sub == _scan(F, o, full, rel, depth + 1, cont)
               IN  _scan_for(F, o, current_path, rel_base, depth, names, k + 1,
                             Append(entries, [type |-> "dir", name |-> name,
                                              children |-> sub.entries]),
                             sub.contents)
          ELSE _scan_for(F, o, current_path, rel_base, depth, names, k + 1,
                         Append(entries, [type |-> "file", name |-> name, path |-> rel]),
                         IF ~should_skip_content(name, rel, o.ignore_exts,
                                                 o.include_pats, o.exclude_pats)
                         THEN dict_set(cont, rel, read_or_none(F, full))
                         ELSE cont)

_scan(F, o, current_path, rel_base, depth, cont) ==
    IF depth_exceeded(o.max_depth, depth)
    THEN [entries |-> <<>>, contents |-> cont]
    ELSE _scan_for(F, o, current_path, rel_base, depth,
                   listed(F, current_path), 1, <<>>, cont)

\* scan(root_path, ...): [tree, contents]
scan(F, o) ==
    LET r == _scan(F, o, <<>>, <<>>, 0, <<>>)
    IN  [tree |-> r.entries, contents |-> r.contents]

-----------------------------------------------------------------------------
(* Renderers                                                               *)

TXT_STRUCTURE == <<"D","i","r","e","c","t","o","r","y"," ","s","t","r","u","c","t","u","r","e",":","\n">>
TXT_CONTENTS  == <<"\n","F","i","l","e"," ","c","o","n","t","e","n","t","s",":","\n">>
TXT_PATH_OPEN == <<"\n","=","=","="," ">>
TXT_PATH_CLOSE == <<" ","=","=","=","\n",BQ,BQ,BQ>>
MD_STRUCTURE  == <<"#","#"," ","D","i","r","e","c","t","o","r","y"," ","s","t","r","u","c","t","u","r","e","\n">>
MD_CONTENTS   == <<"\n","#","#"," ","F","i","l","e"," ","c","o","n","t","e","n","t","s","\n">>
MD_PATH_OPEN  == <<"#","#","#","#"," ">>
MD_PATH_CLOSE == <<"\n",BQ,BQ,BQ>>
FENCE_CLOSE   == <<BQ,BQ,BQ,"\n">>
UNREADABLE    == <<"[","B","i","n","a","r","y"," ","o","r"," ","u","n","r","e","a","d","a","b","l","e"," ","f","i","l","e",":"," ","s","k","i","p","p","e","d","]","\n">>
INDENT_TEXT   == <<" "," "," "," ">>
INDENT_MD     == <<" "," ">>
NL            == <<"\n">>

\* the body shared by both renderers' content loops: the text, or the marker
fenced_body(content) == IF content # None THEN content ELSE UNREADABLE

_print_tree_dir_without_slash(name, indent) == indent \o name \o NL

\* render_text._print_tree: the line written for a directory entry
_print_tree_dir(name, indent) == indent \o name \o <<"/">> \o NL

\* render_text._print_tree(entries, indent)
RECURSIVE _print_tree(_, _)
_print_tree(entries, indent) ==
    IF entries = <<>> THEN <<>>
    ELSE LET e == Head(entries)
         IN  (IF e.type = "dir"
              THEN _print_tree_dir(e.name, indent)
                   \o _print_tree(e.children, indent \o INDENT_TEXT)
              ELSE indent \o e.name \o NL)
             \o _print_tree(Tail(entries), indent)

\* render_text's loop over contents.items()
RECURSIVE render_text_contents(_)
render_text_contents(cont) ==
    IF cont = <<>> THEN <<>>
    ELSE TXT_PATH_OPEN \o Head(cont).path \o TXT_PATH_CLOSE
         \o fenced_body(Head(cont).content) \o FENCE_CLOSE
         \o render_text_contents(Tail(cont))

\* render_text(tree, contents, out): everything it writes to out
render_text(t, cont) ==
    TXT_STRUCTURE \o _print_tree(t, <<>>) \o TXT_CONTENTS \o render_text_contents(cont)

\* render_markdown._md_tree(entries, indent)
RECURSIVE _md_tree(_, _)
_md_tree(entries, indent) ==
    IF entries = <<>> THEN <<>>
    ELSE LET e == Head(entries)
         IN  (IF e.type = "dir"
              THEN indent \o <<"-"," ","*","*">> \o e.name \o <<"/","*","*","\n">>
                   \o _md_tree(e.children, indent \o INDENT_MD)
              ELSE indent \o <<"-"," ",BQ>> \o e.name \o <<BQ,"\n">>)
             \o _md_tree(Tail(entries), indent)

\* render_markdown's loop over contents.items()
RECURSIVE render_markdown_contents(_)
render_markdown_contents(cont) ==
    IF cont = <<>> THEN <<>>
    ELSE MD_PATH_OPEN \o Head(cont).path \o MD_PATH_CLOSE
         \o fenced_body(Head(cont).content) \o FENCE_CLOSE
         \o render_markdown_contents(Tail(cont))

\* render_markdown(tree, contents, out): everything it writes to out
render_markdown(t, cont) ==
    MD_STRUCTURE \o _md_tree(t, <<>>) \o MD_CONTENTS \o render_markdown_contents(cont)

\* n spaces
spaces(n) == [i \in 1..n |-> " "]

\* the characters of a tree entry's type tag
type_chars(t) == IF t = "dir" THEN <<"d","i","r">> ELSE <<"f","i","l","e">>

\* json's string encoding, for the characters of the model: quote, backslash
\* and newline are escaped, everything else is written as it is
json_escape(s) ==
    concat([i \in 1..Len(s) |->
              CASE s[i] = "\"" -> <<"\\", "\"">>
                [] s[i] = "\\" -> <<"\\", "\\">>
                [] s[i] = "\n" -> <<"\\", "n">>
                [] OTHER       -> <<s[i]>>])

json_str(s) == <<"\"">> \o json_escape(s) \o <<"\"">>

\* a dict value of contents: a str, or None written as null
json_value(v) == IF v = None THEN <<"n","u","l","l">> ELSE json_str(v)

JSON_INDENT == 2

\* items joined by sep
RECURSIVE join(_, _)
join(items, sep) ==
    IF items = <<>> THEN <<>>
    ELSE IF Len(items) = 1 THEN items[1]
    ELSE items[1] \o sep \o join(Tail(items), sep)

\* a JSON list or object whose bracket pair is open/close, written by
\* json.dump(..., indent=2) at nesting depth level: "[]" when empty, otherwise
\* one item per line, one level deeper, separated by ","
json_block(open, close, items, level) ==
    IF items = <<>> THEN open \o close
    ELSE open \o NL \o spaces(JSON_INDENT * (level + 1))
         \o join(items, <<",", "\n">> \o spaces(JSON_INDENT * (level + 1)))
         \o NL \o spaces(JSON_INDENT * level) \o close

json_kv(k, v) == json_str(k) \o <<":", " ">> \o v

\* a tree entry (a dict with keys type, name and children or path)
RECURSIVE json_entry(_, _)
json_entry(e, level) ==
    json_block(<<"{">>, <<"}">>,
        IF e.type = "dir"
        THEN << json_kv(<<"t","y","p","e">>, json_str(type_chars(e.type))),
                json_kv(<<"n","a","m","e">>, json_str(e.name)),
                json_kv(<<"c","h","i","l","d","r","e","n">>,
                        json_block(<<"[">>, <<"]">>,
                                   [i \in 1..Len(e.children) |->
                                        json_entry(e.children[i], level + 2)],
                                   level + 1)) >>
        ELSE << json_kv(<<"t","y","p","e">>, json_str(type_chars(e.type))),
                json_kv(<<"n","a","m","e">>, json_str(e.name)),
                json_kv(<<"p","a","t","h">>, json_str(e.path)) >>,
        level)

\* json.dump({'structure': tree, 'contents': contents}, out, indent=2)
json_dump(t, cont) ==
    json_block(<<"{">>, <<"}">>,
        << json_kv(<<"s","t","r","u","c","t","u","r","e">>,
                   json_block(<<"[">>, <<"]">>,
                              [i \in 1..Len(t) |-> json_entry(t[i], 2)], 1)),
           json_kv(<<"c","o","n","t","e","n","t","s">>,
                   json_block(<<"{">>, <<"}">>,
                              [i \in 1..Len(cont) |->
                                   json_kv(cont[i].path, json_value(cont[i].content))],
                              1)) >>,
        0)

\* yaml.dump({'structure': tree, 'contents': contents}, out) of PyYAML, a
\* library outside this repository.  Its layout is modelled as block style
\* with the keys of every mapping sorted (PyYAML's defaults); its choice of
\* scalar style is not modelled: every scalar is written double-quoted.
yaml_kv(k, v) == k \o <<":", " ">> \o v \o NL

RECURSIVE yaml_entries(_, _)
yaml_entries(entries, ind) ==
    IF entries = <<>> THEN <<>>
    ELSE LET e    == Head(entries)
             pad  == spaces(ind)
             pad2 == spaces(ind + 2)
         IN  (IF e.type = "dir"
              THEN pad \o <<"-", " ">>
                   \o (IF e.children = <<>>
                       THEN yaml_kv(<<"c","h","i","l","d","r","e","n">>, <<"[", "]">>)
                       ELSE <<"c","h","i","l","d","r","e","n">> \o <<":", "\n">>
                            \o yaml_entries(e.children, ind + 2))
                   \o pad2 \o yaml_kv(<<"n","a","m","e">>, json_str(e.name))
                   \o pad2 \o yaml_kv(<<"t","y","p","e">>, json_str(type_chars(e.type)))
              ELSE pad \o <<"-", " ">> \o yaml_kv(<<"n","a","m","e">>, json_str(e.name))
                   \o pad2 \o yaml_kv(<<"p","a","t","h">>, json_str(e.path))
                   \o pad2 \o yaml_kv(<<"t","y","p","e">>, json_str(type_chars(e.type))))
             \o yaml_entries(Tail(entries), ind)

yaml_dump(t, cont) ==
    LET keys     == sorted({cont[i].path : i \in 1..Len(cont)})
        value(k) == (CHOOSE i \in 1..Len(cont) : cont[i].path = k)
        item(k)  == spaces(2) \o yaml_kv(json_str(k), json_value(cont[value(k)].content))
    IN  (IF cont = <<>> THEN yaml_kv(<<"c","o","n","t","e","n","t","s">>, <<"{", "}">>)
         ELSE <<"c","o","n","t","e","n","t","s">> \o <<":", "\n">>
              \o concat([i \in 1..Len(keys) |-> item(keys[i])]))
        \o (IF t = <<>> THEN yaml_kv(<<"s","t","r","u","c","t","u","r","e">>, <<"[", "]">>)
            ELSE <<"s","t","r","u","c","t","u","r","e">> \o <<":", "\n">> \o yaml_entries(t, 0))

-----------------------------------------------------------------------------
(* main                                                                    *)

ERR_NOT_DIR_OPEN  == <<"E","r","r","o","r",":"," ","P","a","t","h"," ","'">>
ERR_NOT_DIR_CLOSE == <<"'"," ","d","o","e","s"," ","n","o","t"," ","e","x","i","s","t"," ","o","r"," ","i","s"," ","n","o","t"," ","a"," ","d","i","r","e","c","t","o","r","y",".","\n">>
ERR_NO_YAML       == <<"E","r","r","o","r",":"," ","P","y","Y","A","M","L"," ","n","o","t"," ","i","n","s","t","a","l","l","e","d",";"," ","Y","A","M","L"," ","f","o","r","m","a","t"," ","u","n","a","v","a","i","l","a","b","l","e",".","\n">>
\* what the interpreter writes for an uncaught exception (the frames and the
\* exception's own line are not modelled)
TRACEBACK         == <<"T","r","a","c","e","b","a","c","k"," ","(","m","o","s","t"," ","r","e","c","e","n","t"," ","c","a","l","l"," ","l","a","s","t",")",":","\n">>

MaxRuns == 2

\* ignore_exts = set(ext.lower() for ext in args.ignore_ext)
lowered_exts(a) == { lower(a.ignore_ext[i]) : i \in 1..Len(a.ignore_ext) }

\* the arguments main hands to scan
scan_args(pats, a) ==
    [patterns |-> pats, include_hidden |-> a.hidden, ignore_exts |-> lowered_exts(a),
     include_pats |-> a.include, exclude_pats |-> a.exclude, max_depth |-> a.max_depth]

open_append(F, path) ==
    [q \in DOMAIN F \cup {path} |->
        IF q = path THEN (IF path \in DOMAIN F THEN F[path] ELSE File(<<>>, TRUE))
        ELSE F[q]]

\* open(path, 'w', encoding='utf-8'): the file is created, or truncated
open_w(F, path) ==
    [q \in DOMAIN F \cup {path} |-> IF q = path THEN File(<<>>, TRUE) ELSE F[q]]

\* out.write(text) on the file opened at path, flushed by close or at exit
write(F, path, text) ==
    [F EXCEPT ![path] = File(F[path].data \o text, TRUE)]

\* the document of the chosen format (main's if/elif chain over args.format)
render(format, t, cont) ==
    CASE format = "text"     -> render_text(t, cont)
      [] format = "markdown" -> render_markdown(t, cont)
      [] format = "json"     -> json_dump(t, cont)
      [] format = "yaml"     -> yaml_dump(t, cont)

Result(out, err, code) == [stdout |-> out, stderr |-> err, code |-> code]

\* the user starts the program again, with the same arguments
CanRun == Len(runs) < MaxRuns

\* os.path.isdir(args.root) is false: message on stderr, exit code 1
MainNotADirectory ==
    /\ CanRun
    /\ ~isdir(fs, <<>>)
    /\ runs' = Append(runs, Result(<<>>, ERR_NOT_DIR_OPEN \o args.root \o ERR_NOT_DIR_CLOSE, 1))
    /\ UNCHANGED <<fs, args, YAML_AVAILABLE, patterns, tree, contents>>

\* load_gitignore opens .gitignore outside any try: when reading it raises,
\* the exception ends the program
MainGitignoreRaises ==
    /\ CanRun
    /\ isdir(fs, <<>>)
    /\ isfile(fs, <<GITIGNORE>>) /\ ~fs[<<GITIGNORE>>].ok
    /\ runs' = Append(runs, Result(<<>>, TRACEBACK, 1))
    /\ UNCHANGED <<fs, args, YAML_AVAILABLE, patterns, tree, contents>>

\* main gets past load_gitignore
Scannable ==
    /\ isdir(fs, <<>>)
    /\ ~(isfile(fs, <<GITIGNORE>>) /\ ~fs[<<GITIGNORE>>].ok)

\* open(args.output, 'w') raises (the path is a directory): the scan has
\* run, nothing is written, the exception ends the program
MainOpenRaises ==
    /\ CanRun
    /\ Scannable
    /\ args.output # NotGiven /\ isdir(fs, args.output[1])
    /\ patterns' = load_gitignore(fs)
    /\ LET r == scan(fs, scan_args(patterns', args))
       IN  tree' = r.tree /\ contents' = r.contents
    /\ runs' = Append(runs, Result(<<>>, TRACEBACK, 1))
    /\ UNCHANGED <<fs, args, YAML_AVAILABLE>>

\* the file system after "out = open(args.output, 'w') if args.output else sys.stdout"
opened(F, a) == IF a.output # NotGiven THEN open_w(F, a.output[1]) ELSE F

\* --format yaml without PyYAML: the scan has run and the output is already
\* open when YAML_AVAILABLE is tested; message on stderr, exit code 1
MainYamlUnavailable ==
    /\ CanRun
    /\ Scannable
    /\ ~(args.output # NotGiven /\ isdir(fs, args.output[1]))
    /\ args.format = "yaml" /\ ~YAML_AVAILABLE
    /\ patterns' = load_gitignore(fs)
    /\ LET r == scan(fs, scan_args(patterns', args))
       IN  tree' = r.tree /\ contents' = r.contents
    /\ fs' = opened(fs, args)
    /\ runs' = Append(runs, Result(<<>>, ERR_NO_YAML, 1))
    /\ UNCHANGED <<args, YAML_AVAILABLE>>

\* the normal run: load the patterns, scan, open the output, render, close
MainRender ==
    /\ CanRun
    /\ Scannable
    /\ ~(args.output # NotGiven /\ isdir(fs, args.output[1]))
    /\ ~(args.format = "yaml" /\ ~YAML_AVAILABLE)
    /\ patterns' = load_gitignore(fs)
    /\ LET r   == scan(fs, scan_args(patterns', args))
           doc == render(args.format, r.tree, r.contents)
       IN  /\ tree' = r.tree
           /\ contents' = r.contents
           /\ IF args.output # NotGiven
              THEN /\ fs' = write(opened(fs, args), args.output[1], doc)
                   /\ runs' = Append(runs, Result(<<>>, <<>>, 0))
              ELSE /\ fs' = fs
                   /\ runs' = Append(runs, Result(doc, <<>>, 0))
    /\ UNCHANGED <<args, YAML_AVAILABLE>>

\* lines 169-178 of main alone: the patterns are loaded and the tree is scanned
Scan ==
    /\ patterns = <<>>
    /\ Scannable
    /\ patterns' = load_gitignore(fs)
    /\ LET r == scan(fs, scan_args(patterns', args))
       IN  tree' = r.tree /\ contents' = r.contents
    /\ UNCHANGED <<fs, args, YAML_AVAILABLE, runs>>

-----------------------------------------------------------------------------
(* The inputs: directory trees, command lines, environments                *)

\* names, patterns, .gitignore texts and file texts of the model
N_git     == <<".","g","i","t">>
N_config  == <<"c","o","n","f","i","g">>
N_hpy     == <<".","h",".","p","y">>
N_BPY     == <<"B",".","P","Y">>
N_apy     == <<"a",".","p","y">>
N_png     == <<"i",".","p","n","g">>
N_bld     == <<"b","l","d">>
N_xpy     == <<"x",".","p","y">>
N_sub     == <<"s","u","b">>
N_bpy     == <<"b",".","p","y">>
N_d       == <<"d">>
N_cpy     == <<"c",".","p","y">>
N_tpy     == <<"t",".","p","y">>
N_olog    == <<"o",".","l","o","g">>
N_omd     == <<"o",".","m","d">>
N_up      == <<".",".">>
ROOT_ARG  == <<"p","r","o","j">>

P_py      == <<"*",".","p","y">>
P_sub     == <<"s","u","b","/","*">>
P_PY      == <<"P","Y">>

GI_DIR    == <<"b","l","d","/","\n">>
GI_MIXED  == <<"#"," ","c","\n","\n"," ","s","u","b","/","d"," ","\n","*",".","P","Y">>
GI_LOG    == <<"*",".","l","o","g","\n">>

D_x1      == <<"x","=","1","\n">>
D_b       == <<"b">>
D_c       == <<"c">>
D_t       == <<"t">>
D_old     == <<"o","l","d","\n">>
D_bin     == <<"\\">>

MaxFailures == 2
MaxDepthOpt == 1

\* the file system holding the entries es (pairs <<path, node>>) under an
\* existing root directory
MkFs(es) ==
    LET all == es \cup { << <<>>, Dir(TRUE) >> }
    IN  [p \in { e[1] : e \in all } |-> (CHOOSE e \in all : e[1] = p)[2]]

\* every entry of F at or below one of the paths in ps is taken out
Without(F, ps) ==
    [q \in { r \in DOMAIN F : ~\E p \in ps : /\ Len(p) <= Len(r)
                                             /\ SubSeq(r, 1, Len(p)) = p } |-> F[q]]

\* F with the entries at the paths in ps failing (ok = FALSE)
Failing(F, ps) ==
    [q \in DOMAIN F |-> IF q \in ps THEN [F[q] EXCEPT !.ok = FALSE] ELSE F[q]]

\* F with the file at path holding data
WithFile(F, path, data) ==
    [q \in DOMAIN F \cup {path} |-> IF q = path THEN File(data, TRUE) ELSE F[q]]

\* the largest tree of the scan specification
ScanTree ==
    MkFs({ << <<N_git>>, Dir(TRUE) >>,            << <<N_git, N_config>>, File(D_c, TRUE) >>,
           << <<N_hpy>>, File(D_t, TRUE) >>,      << <<N_BPY>>, File(D_b, TRUE) >>,
           << <<N_apy>>, File(D_x1, TRUE) >>,     << <<N_png>>, File(D_bin, FALSE) >>,
           << <<N_bld>>, Dir(TRUE) >>,            << <<N_bld, N_xpy>>, File(D_t, TRUE) >>,
           << <<N_sub>>, Dir(TRUE) >>,            << <<N_sub, N_bpy>>, File(D_b, TRUE) >>,
           << <<N_sub, N_d>>, Dir(TRUE) >>,       << <<N_sub, N_d, N_cpy>>, File(D_c, TRUE) >>,
           << <<N_tpy>>, File(D_t, TRUE) >> })

\* subtrees that a tree of the scan specification may lack
ScanRemovable == { <<N_git>>, <<N_bld>>, <<N_sub, N_d>> }

\* entries whose reading or listing may fail
ScanFailable == { <<N_apy>>, <<N_sub>>, <<N_sub, N_bpy>> }

\* .gitignore texts; <<>> stands for no .gitignore file
ScanGitignores == { <<>>, GI_DIR, GI_MIXED }

ScanFileSystems ==
    { IF g = <<>> THEN Failing(Without(ScanTree, gone), bad)
      ELSE WithFile(Failing(Without(ScanTree, gone), bad), <<GITIGNORE>>, g) :
        gone \in SUBSET ScanRemovable,
        bad  \in { b \in SUBSET ScanFailable : Cardinality(b) <= MaxFailures },
        g    \in ScanGitignores }

DepthOptions == { NotGiven } \cup { <<n>> : n \in 0..MaxDepthOpt }

Args(hidden, ignore_ext, include, exclude, max_depth, format, output) ==
    [root |-> ROOT_ARG, hidden |-> hidden, ignore_ext |-> ignore_ext,
     include |-> include, exclude |-> exclude, max_depth |-> max_depth,
     format |-> format, output |-> output]

ScanCommandLines ==
    { Args(h, e, i, x, d, "text", NotGiven) :
        h \in BOOLEAN, e \in { <<>>, <<P_PY>> }, i \in { <<>>, <<P_py>> },
        x \in { <<>>, <<P_sub>> }, d \in DepthOptions }

\* the state before scan is called
InitScan ==
    /\ fs \in ScanFileSystems
    /\ args \in ScanCommandLines
    /\ YAML_AVAILABLE = TRUE
    /\ patterns = <<>> /\ tree = <<>> /\ contents = <<>>
    /\ runs = <<>>

SpecScan == InitScan /\ [][Scan]_vars

\* the largest tree of the specification of main
MainTree ==
    MkFs({ << <<N_git>>, Dir(TRUE) >>,        << <<N_git, N_config>>, File(D_c, TRUE) >>,
           << <<N_apy>>, File(D_x1, TRUE) >>,
           << <<N_sub>>, Dir(TRUE) >>,        << <<N_sub, N_bpy>>, File(D_b, FALSE) >> })

\* the trees of the specification of main: the root may be missing; .gitignore
\* may be absent, readable or unreadable; the file that -o o.log names may
\* exist already
MainFileSystems ==
    { <<>> }
    \cup { Failing(WithFile(MainTree, <<GITIGNORE>>, GI_LOG), { <<GITIGNORE>> }) }
    \cup { F \in { IF g = <<>> THEN T ELSE WithFile(T, <<GITIGNORE>>, g) :
                     g \in { <<>>, GI_LOG },
                     T \in { MainTree, WithFile(MainTree, <<N_olog>>, D_old) } } : TRUE }

\* -o: not given, a file beside the root, a file in the root, the root's
\* .gitignore, a directory
OutputOptions ==
    { NotGiven, << <<N_up, N_omd>> >>, << <<N_olog>> >>, << <<GITIGNORE>> >>, << <<N_sub>> >> }

MainCommandLines ==
    { Args(h, e, ix[1], ix[2], d, f, o) :
        h \in BOOLEAN, e \in { <<>>, <<P_PY>> },
        ix \in { << <<>>, <<>> >>, << <<P_py>>, <<P_sub>> >> },
        d \in DepthOptions, f \in { "text", "markdown", "json", "yaml" },
        o \in OutputOptions }

\* the state before the program is first started
Init ==
    /\ fs \in MainFileSystems
    /\ args \in MainCommandLines
    /\ YAML_AVAILABLE \in BOOLEAN
    /\ patterns = <<>> /\ tree = <<>> /\ contents = <<>>
    /\ runs = <<>>

Next ==
    \/ MainNotADirectory
    \/ MainGitignoreRaises
    \/ MainOpenRaises
    \/ MainYamlUnavailable
    \/ MainRender

Spec == Init /\ [][Next]_vars

-----------------------------------------------------------------------------
(* Vocabulary of the properties                                            *)

\* the scan of this state has been made (load_gitignore always returns '.git/')
Scanned == patterns # <<>>

\* the path a/b/c written with separators, from its names <<a, b, c>>
RelOf(names) == join(names, <<"/">>)

\* the entries of a tree in depth-first pre-order, each with the names of the
\* directories above it (anc), its own path as a sequence of names, and its depth
RECURSIVE Flatten(_, _)
Flatten(entries, anc) ==
    IF entries = <<>> THEN <<>>
    ELSE LET e    == Head(entries)
             here == [type |-> e.type, name |-> e.name, names |-> Append(anc, e.name),
                      rel |-> IF e.type = "file" THEN e.path ELSE RelOf(Append(anc, e.name)),
                      depth |-> Len(anc)]
         IN  <<here>>
             \o (IF e.type = "dir" THEN Flatten(e.children, Append(anc, e.name)) ELSE <<>>)
             \o Flatten(Tail(entries), anc)

Entries     == Flatten(tree, <<>>)
FileEntries == { Entries[i] : i \in { k \in 1..Len(Entries) : Entries[k].type = "file" } }
DirEntries  == { Entries[i] : i \in { k \in 1..Len(Entries) : Entries[k].type = "dir" } }
Keys        == { contents[i].path : i \in 1..Len(contents) }

\* the names of a separator-joined path
RECURSIVE SplitFrom(_, _, _)
SplitFrom(rel, i, cur) ==
    IF i > Len(rel) THEN <<cur>>
    ELSE IF rel[i] = "/" THEN <<cur>> \o SplitFrom(rel, i + 1, <<>>)
    ELSE SplitFrom(rel, i + 1, Append(cur, rel[i]))

Split(rel) == SplitFrom(rel, 1, <<>>)

IsHiddenName(name) == name # <<>> /\ name[1] = "."
MatchesIgnorePattern(rel) == \E i \in 1..Len(patterns) : fnmatch(rel, patterns[i])
HasMediaExtension(name) == ext_of(name) \in MEDIA_EXTENSIONS

\* an entry with this name and path is admissible in the listing
Listable(name, rel) ==
    /\ args.hidden \/ ~IsHiddenName(name)
    /\ ~MatchesIgnorePattern(rel)
    /\ ~HasMediaExtension(name)

\* C1: after scan, every File entry of the tree has a name that is not
\* hidden (unless --hidden was given), a relative path that matches none of
\* the loaded ignore patterns and an extension outside the media set, and so
\* has every directory between the root and that entry.
C1_ListingFilters ==
    Scanned =>
        \A f \in FileEntries :
            /\ Listable(f.name, f.rel)
            /\ \A k \in 1..(Len(f.names) - 1) :
                   Listable(f.names[k], RelOf(SubSeq(f.names, 1, k)))

\* C1's case: a scan without --hidden of a tree holding hidden, ignored and
\* media entries has listed a file below a subdirectory
C1_Witness ==
    /\ Scanned /\ ~args.hidden
    /\ Len(patterns) > 1
    /\ exists(fs, <<N_hpy>>) /\ exists(fs, <<N_png>>) /\ exists(fs, <<N_git, N_config>>)
    /\ \E f \in FileEntries : f.depth >= 1

\* the three content checks, on a listed file
InIgnoredExtensions(name) ==
    \E i \in 1..Len(args.ignore_ext) : ext_of(name) = lower(args.ignore_ext[i])
PassesContentChecks(name, rel) ==
    /\ ~InIgnoredExtensions(name)
    /\ args.include = <<>> \/ \E i \in 1..Len(args.include) : fnmatch(rel, args.include[i])
    /\ ~\E i \in 1..Len(args.exclude) : fnmatch(rel, args.exclude[i])

\* C2: after scan, the keys of the Content Map are exactly the paths of the
\* tree's File entries that pass the three content checks (each key once), and
\* a key is mapped to the unreadable marker exactly when reading its file fails.
C2_ContentKeys ==
    Scanned =>
        /\ Keys = { f.rel : f \in { g \in FileEntries : PassesContentChecks(g.name, g.rel) } }
        /\ \A i, j \in 1..Len(contents) : contents[i].path = contents[j].path => i = j
        /\ \A i \in 1..Len(contents) :
               LET node == fs[Split(contents[i].path)]
               IN  contents[i].content = IF node.ok THEN node.data ELSE None

\* C2's case: a listed file is kept out of the Content Map by a content check,
\* another is in it with its text, a third with the unreadable marker
C2_Witness ==
    /\ Scanned
    /\ \E f \in FileEntries : f.rel \notin Keys
    /\ \E i, j \in 1..Len(contents) :
           contents[i].content = None /\ contents[j].content # None

\* C3: with --ignore-ext, no File entry of the tree and no Content Map key
\* has an extension (compared case-insensitively) in the ignore-extension set.
C3_IgnoredExtensionsNowhere ==
    Scanned =>
        /\ \A f \in FileEntries : ~InIgnoredExtensions(f.name)
        /\ \A k \in Keys : ~InIgnoredExtensions(Split(k)[Len(Split(k))])

\* the directory prefix of a pattern that ends in a separator (the pattern
\* without its trailing separators)
RECURSIVE DirPrefix(_)
DirPrefix(pat) ==
    IF pat # <<>> /\ pat[Len(pat)] = "/" THEN DirPrefix(SubSeq(pat, 1, Len(pat) - 1)) ELSE pat

\* rel is the directory a separator-ended pattern names, or lies beneath it
AtOrBelow(rel, pat) == rel = DirPrefix(pat) \/ startswith(rel, pat)

\* C4: no entry of the tree and no Content Map key is at or below the
\* directory named by an ignore pattern ending in a separator; in particular
\* nothing at or below .git is listed or read, --hidden or not.
C4_DirectoryPatternsExclude ==
    Scanned =>
        \A i \in 1..Len(patterns) :
            patterns[i][Len(patterns[i])] = "/" =>
                /\ \A k \in 1..Len(Entries) : ~AtOrBelow(Entries[k].rel, patterns[i])
                /\ \A k \in Keys : ~AtOrBelow(k, patterns[i])

\* the number of directories between the root and a separator-joined path
DepthOf(rel) == Len(Split(rel)) - 1

\* C5: with --max-depth n, no entry of the tree and no Content Map key lies
\* more than n directories below the root; a directory at depth n is listed
\* with no children (it is not descended).  With n = 0 only root-level
\* entries remain.
C5_DepthLimit ==
    (Scanned /\ args.max_depth # NotGiven) =>
        /\ \A k \in 1..Len(Entries) : Entries[k].depth <= args.max_depth[1]
        /\ \A k \in Keys : DepthOf(k) <= args.max_depth[1]

\* C5's case: --max-depth 0 on a tree with a readable subdirectory holding a
\* listable file: the subdirectory is listed, empty, and root files are read
C5_Witness ==
    /\ Scanned /\ args.max_depth = <<0>>
    /\ exists(fs, <<N_sub, N_bpy>>) /\ fs[<<N_sub>>].ok
    /\ \E d \in DirEntries : d.names = <<N_sub>>
    /\ \E k \in Keys : DepthOf(k) = 0

\* the file system with no failing entry
Healed(F) == [q \in DOMAIN F |-> [F[q] EXCEPT !.ok = TRUE]]

\* some directory at or above the path named fails to list
BelowFailedDir(names) ==
    \E k \in 1..(Len(names) - 1) : ~fs[SubSeq(names, 1, k)].ok

\* a tree with the children of every directory that fails to list taken out
RECURSIVE CutFailedDirs(_, _)
CutFailedDirs(entries, anc) ==
    [i \in 1..Len(entries) |->
        IF entries[i].type = "file" THEN entries[i]
        ELSE [entries[i] EXCEPT !.children =
                 IF fs[Append(anc, entries[i].name)].ok
                 THEN CutFailedDirs(entries[i].children, Append(anc, entries[i].name))
                 ELSE <<>>]]

\* a Content Map with the files below failing directories taken out and the
\* files that fail to read mapped to the marker
MarkFailedFiles(cont) ==
    LET outside(item) == ~BelowFailedDir(Split(item.path))
        kept          == SelectSeq(cont, outside)
    IN  [i \in 1..Len(kept) |->
            IF fs[Split(kept[i].path)].ok THEN kept[i]
            ELSE [kept[i] EXCEPT !.content = None]]

\* C7: scan returns whatever fails: a file that cannot be read is a key mapped
\* to the unreadable marker, a directory that cannot be listed is an entry
\* without children, and everything else in the tree and in the Content Map
\* is exactly what the scan of the same tree without the failures gives, in
\* the same order.
C7_FailuresStayLocal ==
    Scanned =>
        LET clean == scan(Healed(fs), scan_args(patterns, args))
        IN  /\ tree = CutFailedDirs(clean.tree, <<>>)
            /\ contents = MarkFailedFiles(clean.contents)

\* C7's case: a file failed to read and is in the Content Map with the
\* marker, a directory failed to list and is in the tree, and a later file
\* was still read
C7_Witness ==
    /\ Scanned
    /\ \E i \in 1..Len(contents) : contents[i].content = None
    /\ \E d \in DirEntries : ~fs[d.names].ok /\ listdir(fs, d.names) # {}
    /\ \E i \in 1..Len(contents) : contents[i].path = N_tpy /\ contents[i].content = D_t

\* the position of a key in the Content Map
KeyIndex(k) == CHOOSE i \in 1..Len(contents) : contents[i].path = k

\* the directory of a separator-joined path, as names
ParentOf(rel) == SubSeq(Split(rel), 1, Len(Split(rel)) - 1)

IsProperPrefix(a, b) == Len(a) < Len(b) /\ SubSeq(b, 1, Len(a)) = a

\* C9 as stated: in the Content Map, the files of a directory's
\* subdirectories come before that directory's own files.
C9_SubdirectoriesFirst ==
    Scanned =>
        \A own, deeper \in Keys :
            IsProperPrefix(ParentOf(own), ParentOf(deeper)) =>
                KeyIndex(deeper) < KeyIndex(own)

\* a names-path comes before another in the depth-first walk that takes the
\* entries of every directory in ascending name order, files and
\* subdirectories alike
RECURSIVE WalkBefore(_, _)
WalkBefore(a, b) ==
    IF a = <<>> \/ b = <<>> THEN FALSE
    ELSE IF Head(a) = Head(b) THEN WalkBefore(Tail(a), Tail(b))
    ELSE StrLess(Head(a), Head(b))

\* the children lists of a tree: the tree itself and every directory's children
RECURSIVE SiblingLists(_)
SiblingLists(entries) ==
    {entries} \cup UNION { SiblingLists(entries[i].children) :
                             i \in { k \in 1..Len(entries) : entries[k].type = "dir" } }

\* C9 as amended: the entries of every directory are in ascending name
\* order, files and subdirectories interleaved, and the Content Map is in the
\* order of that depth-first walk: of two keys, the one with the smaller name
\* at the first place where their paths differ comes first.
C9_SortedWalkOrder ==
    Scanned =>
        /\ \A l \in SiblingLists(tree) :
               \A i, j \in 1..Len(l) : i < j => StrLess(l[i].name, l[j].name)
        /\ \A i, j \in 1..Len(contents) :
               i < j => WalkBefore(Split(contents[i].path), Split(contents[j].path))

\* C9's case: a root file, then a file of a subdirectory, then a root file
C9_Witness ==
    /\ Scanned
    /\ { N_apy, RelOf(<<N_sub, N_bpy>>), N_tpy } \subseteq Keys
    /\ KeyIndex(N_apy) < KeyIndex(RelOf(<<N_sub, N_bpy>>))
    /\ KeyIndex(RelOf(<<N_sub, N_bpy>>)) < KeyIndex(N_tpy)

-----------------------------------------------------------------------------
(* Properties of main                                                      *)

\* the file named by -o
HasSink  == args.output # NotGiven
SinkPath == args.output[1]

\* what the last run left in its sink: the text on standard output, or the
\* text of the file named by -o (nothing when there is no such file)
SinkText(F, R) ==
    IF ~HasSink THEN R[Len(R)].stdout
    ELSE IF isfile(F, SinkPath) THEN F[SinkPath].data ELSE <<>>

\* a step of a run that asked for YAML without the serializer, -o naming a
\* file path
YamlRefused ==
    /\ Len(runs') = Len(runs) + 1
    /\ isdir(fs, <<>>)
    /\ ~(isfile(fs, <<GITIGNORE>>) /\ ~fs[<<GITIGNORE>>].ok)
    /\ args.format = "yaml" /\ ~YAML_AVAILABLE
    /\ HasSink /\ ~isdir(fs, SinkPath)

\* C6: a run with --format yaml and no YAML serializer writes the diagnostic
\* to the error stream, exits with code 1 and leaves the file system as it
\* was: the path given with -o is neither created nor truncated.
C6_YamlRefusalLeavesNoFile ==
    [][YamlRefused =>
          /\ runs'[Len(runs')].code = 1
          /\ runs'[Len(runs')].stderr = ERR_NO_YAML
          /\ fs' = fs]_vars

\* a run changes nothing in the file system but the file named by -o
OnlySinkChanges ==
    IF ~HasSink THEN fs' = fs
    ELSE /\ DOMAIN fs' \ {SinkPath} = DOMAIN fs \ {SinkPath}
         /\ \A q \in DOMAIN fs \ {SinkPath} : fs'[q] = fs[q]

\* a step that is the second (or a later) run on the tree the run before left
RunAgain == Len(runs) >= 1 /\ Len(runs') = Len(runs) + 1

\* C8 as stated: whatever the options and the sink, a second run leaves in
\* the sink the very bytes the first run left there, and changes nothing else.
C8_IdempotentAnySink ==
    [][RunAgain =>
          /\ SinkText(fs', runs') = SinkText(fs, runs)
          /\ OnlySinkChanges]_vars

\* the paths of the File entries of a tree, as names
ListedFiles(t) ==
    LET es == Flatten(t, <<>>)
    IN  { es[i].names : i \in { k \in 1..Len(es) : es[k].type = "file" } }

\* the run reads the file named by -o: it is the root's .gitignore, or the
\* scan lists it as a File entry
SinkIsRead(t) == HasSink /\ (SinkPath = <<GITIGNORE>> \/ SinkPath \in ListedFiles(t))

\* C8 as amended: when the sink is standard output or a -o path that the
\* program does not itself read (neither the root's .gitignore nor a file
\* the scan lists), a second run leaves in the sink the very bytes the first
\* run left there; and every run, whatever its sink, changes nothing in the
\* file system but the file named by -o.
C8_IdempotentUnreadSink ==
    [][/\ Len(runs') = Len(runs) + 1 => OnlySinkChanges
       /\ (RunAgain /\ ~SinkIsRead(tree'))
             => SinkText(fs', runs') = SinkText(fs, runs)]_vars

\* C8's case: two runs have written a document to a file beside the root
C8_Witness ==
    /\ Len(runs) = 2
    /\ HasSink /\ SinkPath = <<N_up, N_omd>>
    /\ runs[1].code = 0 /\ runs[2].code = 0
    /\ Len(SinkText(fs, runs)) > 0
    /\ contents # <<>>

\* the lines of the structure section: one per entry, in pre-order
TreeLines(t) ==
    LET es == Flatten(t, <<>>)
    IN  [i \in 1..Len(es) |->
            spaces(4 * es[i].depth) \o es[i].name
            \o (IF es[i].type = "dir" THEN <<"/">> ELSE <<>>) \o NL]

\* the sections of the contents section: one per key, in map order
ContentSections(cont) ==
    [i \in 1..Len(cont) |->
        TXT_PATH_OPEN \o cont[i].path \o TXT_PATH_CLOSE
        \o (IF cont[i].content = None THEN UNREADABLE ELSE cont[i].content)
        \o FENCE_CLOSE]

\* a run that rendered plain text has just ended
TextRendered ==
    /\ Len(runs) >= 1 /\ runs[Len(runs)].code = 0
    /\ args.format = "text"

\* C10: the text document is the structure header, one line per tree entry
\* in depth-first pre-order (four spaces per level, directories ending in
\* "/"), the contents header, and one section per Content Map key in map
\* order: the path marker line, then the fence holding the file's text or
\* the unreadable marker.
C10_TextDocument ==
    TextRendered =>
        SinkText(fs, runs) =
            TXT_STRUCTURE \o concat(TreeLines(tree))
            \o TXT_CONTENTS \o concat(ContentSections(contents))

\* C10's case: a text document with a directory, a file below it, a readable
\* file and an unreadable one
C10_Witness ==
    /\ TextRendered
    /\ \E e \in FileEntries : e.depth = 1
    /\ \E i, j \in 1..Len(contents) :
           contents[i].content = None /\ contents[j].content # None

=============================================================================
